---- MODULE Spec2Model ----
(***************************************************************************)
(* A model of src/bot.py: the Oromo <-> English relay bot.                 *)
(*                                                                         *)
(* Python strings are TLA+ strings; Len, \o and SubSeq act on them, and a  *)
(* character is a string of length one.  Lists of strings are sequences.   *)
(***************************************************************************)
EXTENDS Integers, Sequences, FiniteSets, TLC

(***************************************************************************)
(* Python string primitives used by the program.                           *)
(***************************************************************************)

\* s[i-1] in Python: the i-th character (1-based) as a string of length one.
Char(s, i) == SubSeq(s, i, i)

\* The characters str.split() and the regex class \s treat as whitespace
\* (the ASCII ones that a TLA+ string can hold).
Whitespace == {" ", "\t", "\n", "\r", "\f"}

IsSpace(c) == c \in Whitespace

\* The regex class [.!?] of chunk_text's sentence split.
SentenceEnd == {".", "!", "?"}

\* The elements of a finite set of integers in increasing order.
RECURSIVE SortedSeq(_)
SortedSeq(S) ==
    IF S = {} THEN <<>>
    ELSE LET m == CHOOSE x \in S : \A y \in S : x <= y
         IN  <<m>> \o SortedSeq(S \ {m})

\* sub in s, tested at position i.
MatchAt(s, sub, i) ==
    /\ i >= 1
    /\ i + Len(sub) - 1 <= Len(s)
    /\ SubSeq(s, i, i + Len(sub) - 1) = sub

\* Python's `sub in s`.
Contains(s, sub) == \E i \in 1..(Len(s) - Len(sub) + 1) : MatchAt(s, sub, i)

\* sep.join(parts)
RECURSIVE JoinFrom(_, _, _)
JoinFrom(parts, sep, k) ==
    IF k > Len(parts) THEN ""
    ELSE IF k = Len(parts) THEN parts[k]
    ELSE parts[k] \o sep \o JoinFrom(parts, sep, k + 1)

Join(parts, sep) == JoinFrom(parts, sep, 1)

\* The first index of each maximal run of non-whitespace characters of s.
WordStarts(s) ==
    {i \in 1..Len(s) : /\ ~IsSpace(Char(s, i))
                       /\ (i = 1 \/ IsSpace(Char(s, i - 1)))}

\* The last index of the run of non-whitespace characters that starts at b.
WordEnd(s, b) ==
    CHOOSE e \in b..Len(s) :
        /\ (e = Len(s) \/ IsSpace(Char(s, e + 1)))
        /\ \A m \in b..e : ~IsSpace(Char(s, m))

\* s.split(): the whitespace-separated words of s, in order.
Words(s) ==
    LET starts == SortedSeq(WordStarts(s))
    IN  [k \in 1..Len(starts) |-> SubSeq(s, starts[k], WordEnd(s, starts[k]))]

\* s.strip()
Strip(s) ==
    LET keep == {i \in 1..Len(s) : ~IsSpace(Char(s, i))}
    IN  IF keep = {} THEN ""
        ELSE LET b == CHOOSE i \in keep : \A m \in 1..(i - 1) : IsSpace(Char(s, m))
                 e == CHOOSE i \in keep : \A m \in (i + 1)..Len(s) : IsSpace(Char(s, m))
             IN  SubSeq(s, b, e)

\* The starts of the matches of (?<=[.!?])\s+ in s: a whitespace character
\* right after a sentence-terminal character (such a position always begins
\* its whitespace run, so the matches never overlap).
SplitStarts(s) ==
    {i \in 2..Len(s) : /\ IsSpace(Char(s, i))
                       /\ Char(s, i - 1) \in SentenceEnd}

\* The first index after the whitespace run that starts at i (Len(s)+1 when
\* the run reaches the end): \s+ is greedy.
RunEnd(s, i) ==
    CHOOSE j \in (i + 1)..(Len(s) + 1) :
        /\ (j = Len(s) + 1 \/ ~IsSpace(Char(s, j)))
        /\ \A m \in i..(j - 1) : IsSpace(Char(s, m))

\* re.split(r'(?<=[.!?])\s+', s)
RECURSIVE SentencesFrom(_, _, _, _)
SentencesFrom(s, starts, k, from) ==
    IF k > Len(starts) THEN <<SubSeq(s, from, Len(s))>>
    ELSE <<SubSeq(s, from, starts[k] - 1)>>
             \o SentencesFrom(s, starts, k + 1, RunEnd(s, starts[k]))

SplitSentences(s) == SentencesFrom(s, SortedSeq(SplitStarts(s)), 1, 1)

(***************************************************************************)
(* chunk_text (src/bot.py lines 55-90).                                    *)
(***************************************************************************)

\* Lines 71-76: the loop over the words of an over-long sentence.  st holds
\* the function's `chunks` and the loop's `temp_chunk`.
RECURSIVE WordLoop(_, _, _, _)
WordLoop(words, k, st, max_length) ==
    IF k > Len(words) THEN st
    ELSE LET word == words[k]
         IN  IF Len(st.temp_chunk) + Len(word) + 1 <= max_length
             THEN WordLoop(words, k + 1,
                           [chunks |-> st.chunks,
                            temp_chunk |-> IF st.temp_chunk # ""
                                           THEN st.temp_chunk \o " " \o word
                                           ELSE word],
                           max_length)
             ELSE WordLoop(words, k + 1,
                           [chunks |-> Append(st.chunks, st.temp_chunk),
                            temp_chunk |-> word],
                           max_length)

\* Lines 65-85: the loop over the sentences.  st holds `chunks` and
\* `current_chunk`.
RECURSIVE SentenceLoop(_, _, _, _)
SentenceLoop(sentences, k, st, max_length) ==
    IF k > Len(sentences) THEN st
    ELSE LET sentence == sentences[k]
         IN  IF Len(sentence) > max_length
             THEN LET w == WordLoop(Words(sentence), 1,
                                    [chunks |-> st.chunks, temp_chunk |-> ""],
                                    max_length)
                  IN  SentenceLoop(sentences, k + 1,
                          [chunks |-> w.chunks,
                           current_chunk |->
                               IF w.temp_chunk # ""
                               THEN (IF st.current_chunk # ""
                                     THEN st.current_chunk \o " " \o w.temp_chunk
                                     ELSE w.temp_chunk)
                               ELSE st.current_chunk],
                          max_length)
             ELSE IF Len(st.current_chunk) + Len(sentence) + 1 <= max_length
             THEN SentenceLoop(sentences, k + 1,
                      [chunks |-> st.chunks,
                       current_chunk |-> IF st.current_chunk # ""
                                         THEN st.current_chunk \o " " \o sentence
                                         ELSE sentence],
                      max_length)
             ELSE SentenceLoop(sentences, k + 1,
                      [chunks |-> Append(st.chunks, st.current_chunk),
                       current_chunk |-> sentence],
                      max_length)

chunk_text(text, max_length) ==
    IF Len(text) <= max_length THEN <<text>>
    ELSE LET st == SentenceLoop(SplitSentences(text), 1,
                                [chunks |-> <<>>, current_chunk |-> ""],
                                max_length)
         IN  IF st.current_chunk # ""
             THEN Append(st.chunks, st.current_chunk)
             ELSE st.chunks

(***************************************************************************)
(* fix_html_entities (src/bot.py lines 41-53).                             *)
(***************************************************************************)

\* s.replace(old, new): the non-overlapping occurrences of old, left to right.
RECURSIVE ReplaceFrom(_, _, _, _)
ReplaceFrom(s, old, new, from) ==
    LET occ == {i \in from..(Len(s) - Len(old) + 1) : MatchAt(s, old, i)}
    IN  IF occ = {} THEN SubSeq(s, from, Len(s))
        ELSE LET i == CHOOSE x \in occ : \A y \in occ : x <= y
             IN  SubSeq(s, from, i - 1) \o new
                     \o ReplaceFrom(s, old, new, i + Len(old))

Replace(s, old, new) == ReplaceFrom(s, old, new, 1)

\* The replacements are applied one after the other, in the dict's order.
fix_html_entities(text) ==
    Replace(Replace(Replace(Replace(text, "&#39;", "'"),
                            "&quot;", "\""),
                    "&amp;", "&"),
            "&#10;", "\n")

(***************************************************************************)
(* The fixed messages of the program.                                      *)
(***************************************************************************)

\* Line 193.
REFUSAL_MESSAGE == "Gaaffii wanta tola hin oolleef deebii hin kennu."

\* Line 175.
AI_FALLBACK_MESSAGE ==
    "Maaloo, amma kana yaada keessan qabachuuf rakkina qaba. Yeroo muraasa booda irra deebi'aa yaali."

\* Line 209: the substring handle_message looks for in get_ai_response's result.
AI_FALLBACK_MARKER == "Maaloo, amma kana yaada keessan qabachuuf rakkina qaba"

\* Line 121.
TRANSLATION_APOLOGY ==
    "Dhiifama, rakkina translation qaba. Yeroo muraasa booda irra deebi'aa yaali."

\* Line 223.
TECHNICAL_ERROR_MESSAGE ==
    "Dhiifama, rakkina teknikaala qabna. Yeroo muraasa booda irra deebi'aa yaali."

\* Line 38.
MAX_TRANSLATION_LENGTH == 400

\* Line 124: the default of get_ai_response's max_retries parameter.
max_retries == 3

\* Line 132: the number of stored turns that make the prompt's context.
CONTEXT_TURNS == 3

\* Line 164: the number of turns kept per user.
HISTORY_TURNS == 5

\* Line 154: the length a response is cut to.
MAX_RESPONSE_LENGTH == 1000

(***************************************************************************)
(* The content filter (src/bot.py lines 180-183, 192).                     *)
(***************************************************************************)

UpperLetters == "ABCDEFGHIJKLMNOPQRSTUVWXYZ"
LowerLetters == "abcdefghijklmnopqrstuvwxyz"

\* re.IGNORECASE on an ASCII letter.
LowerChar(c) ==
    IF \E k \in 1..26 : Char(UpperLetters, k) = c
    THEN Char(LowerLetters, CHOOSE k \in 1..26 : Char(UpperLetters, k) = c)
    ELSE c

\* The alternatives of the pattern (sexy|porn|nude|sex|xxx|adult|nsfw).
Denylist == {"sexy", "porn", "nude", "sex", "xxx", "adult", "nsfw"}

MatchAtIgnoreCase(s, term, i) ==
    /\ i + Len(term) - 1 <= Len(s)
    /\ \A j \in 1..Len(term) : LowerChar(Char(s, i + j - 1)) = Char(term, j)

\* A search compiled without re.IGNORECASE.
case_sensitive_search(user_text) ==
    \E term \in Denylist : \E i \in 1..Len(user_text) : MatchAt(user_text, term, i)

\* self.inappropriate_content_pattern.search(user_text) is not None
inappropriate_content_search(user_text) ==
    \E term \in Denylist :
        \E i \in 1..Len(user_text) : MatchAtIgnoreCase(user_text, term, i)

(***************************************************************************)
(* get_ai_response's pure parts (src/bot.py lines 128-164).                *)
(***************************************************************************)

\* seq[-n:]
LastN(seq, n) ==
    IF Len(seq) <= n THEN seq ELSE SubSeq(seq, Len(seq) - n + 1, Len(seq))

\* A context made of the oldest stored turns ([:3] for [-3:]).
BuildContextOldest(history, user_id) ==
    IF user_id \in DOMAIN history /\ history[user_id] # <<>>
    THEN Join(SubSeq(history[user_id], 1,
                     IF Len(history[user_id]) < CONTEXT_TURNS
                     THEN Len(history[user_id]) ELSE CONTEXT_TURNS), "\n") \o "\n"
    ELSE ""

\* Lines 129-132: the context is read from the history once, before the loop.
BuildContext(history, user_id) ==
    IF user_id \in DOMAIN history /\ history[user_id] # <<>>
    THEN Join(LastN(history[user_id], CONTEXT_TURNS), "\n") \o "\n"
    ELSE ""

\* Line 137.
BuildPrompt(context, text) == context \o "User: " \o text \o "\nAssistant:"

\* s.split(sep)[-1]: what follows the last occurrence of sep (s when there is none).
AfterLast(s, sep) ==
    LET occ == {i \in 1..(Len(s) - Len(sep) + 1) : MatchAt(s, sep, i)}
    IN  IF occ = {} THEN s
        ELSE LET i == CHOOSE x \in occ : \A y \in occ : x >= y
             IN  SubSeq(s, i + Len(sep), Len(s))

\* re.sub(r"User:.*", "", s): "." matches any character but a newline, so each
\* "User:" is removed together with the rest of its line only.
RECURSIVE SubUserFrom(_, _)
SubUserFrom(s, from) ==
    LET occ == {i \in from..(Len(s) - 4) : MatchAt(s, "User:", i)}
    IN  IF occ = {} THEN SubSeq(s, from, Len(s))
        ELSE LET i  == CHOOSE x \in occ : \A y \in occ : x <= y
                 nl == {j \in i..Len(s) : Char(s, j) = "\n"}
                 e  == IF nl = {} THEN Len(s) + 1
                       ELSE CHOOSE x \in nl : \A y \in nl : x <= y
             IN  SubSeq(s, from, i - 1) \o SubUserFrom(s, e)

\* Lines 150-151.
ExtractAssistant(generated_text) ==
    Strip(SubUserFrom(Strip(AfterLast(generated_text, "Assistant:")), 1))

\* Lines 154-155.
LimitLength(ai_response) ==
    IF Len(ai_response) > MAX_RESPONSE_LENGTH
    THEN SubSeq(ai_response, 1, MAX_RESPONSE_LENGTH) \o "..."
    ELSE ai_response

\* Lines 159, 161: the stored form of a turn.
Turn(text, ai_response) == "User: " \o text \o "\nAssistant: " \o ai_response

\* A trim that keeps the oldest turns ([:5] for [-5:]).
KeepFirstTurns(turns) ==
    IF Len(turns) <= HISTORY_TURNS THEN turns ELSE SubSeq(turns, 1, HISTORY_TURNS)

\* Line 164.
KeepLastTurns(turns) == LastN(turns, HISTORY_TURNS)

\* A write to one list that all users share.
AppendToAll(history, user_id, turn) ==
    [u \in DOMAIN history \cup {user_id} |->
        KeepLastTurns(Append(IF u \in DOMAIN history THEN history[u] ELSE <<>>,
                             turn))]

\* A write that keeps the list a known user already has (setdefault).
WriteIfAbsent(history, user_id, turn) ==
    IF user_id \in DOMAIN history THEN history
    ELSE [u \in DOMAIN history \cup {user_id} |->
             IF u = user_id THEN <<turn>> ELSE history[u]]

\* A write that always takes the branch of the unknown user (line 161).
ReplaceHistory(history, user_id, turn) ==
    [u \in DOMAIN history \cup {user_id} |->
        IF u = user_id THEN <<turn>> ELSE history[u]]

\* Lines 158-164: the history after the turn is recorded for user_id.
AppendTurn(history, user_id, turn) ==
    LET old == IF user_id \in DOMAIN history THEN history[user_id] ELSE <<>>
    IN  [u \in DOMAIN history \cup {user_id} |->
            IF u = user_id THEN KeepLastTurns(Append(old, turn)) ELSE history[u]]

\* A loop bound that is off by one (<= for <).
RetriesLeftInclusive(retries) == retries <= max_retries

\* Line 134 / 172: whether another attempt is made.
RetriesLeft(retries) == retries < max_retries

(***************************************************************************)
(* translate_text's fallback (src/bot.py lines 116-122).                   *)
(***************************************************************************)

\* A fallback that hands back the input in both directions.
ReturnsInput(text, source_lang, target_lang) == text

TranslationFallback(text, source_lang, target_lang) ==
    IF source_lang = "om" /\ target_lang = "en" THEN text
    ELSE IF source_lang = "en" /\ target_lang = "om" THEN TRANSLATION_APOLOGY
    ELSE text

(***************************************************************************)
(* The environment: users, message texts and what the external primitives  *)
(* can answer.                                                              *)
(***************************************************************************)

\* Bounds of the model.
NumUsers == 2
NumTasks == 2
MaxMessages == 6
MaxDeviations == 3
MaxTextLen == 6
MaxChunkLen == 3

Users == 1..NumUsers

\* handle_message coroutines that can be in flight at once.
Tasks == 1..NumTasks

\* s * n
RECURSIVE Rep(_, _)
Rep(s, n) ==
    IF n <= 0 THEN ""
    ELSE IF n % 2 = 0 THEN LET half == Rep(s, n \div 2) IN half \o half
    ELSE s \o Rep(s, n - 1)

\* Message texts.
GREETING == "Akkam jirta?"
DENYLISTED_TEXT == "Suuraa SEXY naaf ergi"
\* Three sentences of 201 characters: three chunks at 400.
LONG_TEXT ==
    Rep("a", 200) \o ". " \o Rep("b", 200) \o ". " \o Rep("c", 200) \o "."
\* The k-th of a series of distinct short questions.
Question(k) == "Gaaffii " \o Char("123456789", ((k - 1) % 9) + 1) \o "?"

\* What the generation primitive can append to the prompt it echoes.
PLAIN_REPLY == " I am fine, thank you!"
DIALOGUE_REPLY == " I am fine.\nUser: And you?\nSo so.\nAssistant: Great."
MARKER_REPLY == " " \o AI_FALLBACK_MARKER \o " means the service is busy."
\* Two sentences of 201 characters: two chunks at 400.
LONG_REPLY == " " \o Rep("x", 200) \o ". " \o Rep("y", 200) \o "."

UnusualReplies == {DIALOGUE_REPLY, MARKER_REPLY, LONG_REPLY}

\* What the translation primitive answers for a chunk when it succeeds: the
\* service escapes HTML characters in its answer.
RawTranslation(chunk, target_lang) ==
    "&quot;" \o chunk \o "&quot; (" \o target_lang \o " &amp; it&#39;s)"

\* A run of the environment: the messages that arrive, in order; whether the
\* framework starts a handler while another is suspended (the Application's
\* concurrent_updates setting; line 239 builds it with the default, off);
\* and the number of deviations (a failing external call, an unusual answer
\* of the generation primitive) the run may contain.
Message(user_id, text) == [user_id |-> user_id, text |-> text]

Scenarios ==
    { \* one user fills and overflows the history; another user writes once
      [inbox  |-> [k \in 1..MaxMessages |-> Message(1, Question(k))]
                      \o <<Message(NumUsers, GREETING)>>,
       concurrent_updates |-> FALSE,
       budget |-> MaxDeviations - 2],
      \* two users at once
      [inbox  |-> <<Message(1, GREETING), Message(NumUsers, Question(1)),
                    Message(1, Question(2))>>,
       concurrent_updates |-> TRUE,
       budget |-> MaxDeviations - 2],
      \* a refused text, a text of several chunks and a plain one
      [inbox  |-> <<Message(1, DENYLISTED_TEXT), Message(1, LONG_TEXT),
                    Message(NumUsers, GREETING)>>,
       concurrent_updates |-> FALSE,
       budget |-> MaxDeviations],
      \* one user, two messages at once, with the most deviations
      [inbox  |-> <<Message(1, GREETING), Message(1, Question(1))>>,
       concurrent_updates |-> TRUE,
       budget |-> MaxDeviations] }

(***************************************************************************)
(* The state.                                                              *)
(***************************************************************************)

VARIABLES
    user_conversation_history,  \* line 35: user id -> list of turns
    task,                       \* the locals and position of each coroutine
    running,                    \* the coroutine holding the event loop, or 0
    inbox,                      \* messages not yet delivered to a handler
    concurrent_updates,         \* whether handlers may overlap
    budget,                     \* deviations the environment may still make
    received,                   \* number of messages delivered so far
    reply_calls,                \* per coroutine: calls of reply_text
    translate_calls,            \* per coroutine: calls of the translation primitive
    gen_calls,                  \* per coroutine: calls of the generation primitive
    recorded,                   \* every turn written to the history, in order
    ct_pc, ct_text, ct_max_length, ct_chunks   \* a direct call of chunk_text

chunk_vars == <<ct_pc, ct_text, ct_max_length, ct_chunks>>

vars == <<user_conversation_history, task, running, inbox, concurrent_updates,
          budget, received, reply_calls, translate_calls, gen_calls, recorded,
          chunk_vars>>

\* A coroutine that handles no message.
IdleTask ==
    [pc |-> "idle", msg |-> 0, user_id |-> 0, user_text |-> "",
     translated_input |-> "", ai_response |-> "", translated_response |-> "",
     \* translate_text's frame
     call |-> "", text |-> "", source_lang |-> "", target_lang |-> "",
     chunks |-> <<>>, translated_chunks |-> <<>>, i |-> 0,
     \* get_ai_response's frame
     retries |-> 0, context |-> ""]

\* Positions at which a coroutine is suspended in an await (or has ended):
\* the event loop is free to run another coroutine.
Parked == {"idle", "done", "escaped", "refuse", "typing", "chunk_delay",
           "retry_delay", "reply_fallback", "reply", "reply_error"}

Ended == {"idle", "done", "escaped"}

PipelineInit ==
    /\ user_conversation_history = <<>>
    /\ task = [t \in Tasks |-> IdleTask]
    /\ running = 0
    /\ received = 0
    /\ reply_calls = [t \in Tasks |-> <<>>]
    /\ translate_calls = [t \in Tasks |-> <<>>]
    /\ gen_calls = [t \in Tasks |-> <<>>]
    /\ recorded = <<>>

NoChunkCall ==
    /\ ct_pc = "none"
    /\ ct_text = ""
    /\ ct_max_length = 0
    /\ ct_chunks = <<>>

Init ==
    /\ PipelineInit
    /\ \E sc \in Scenarios :
          /\ inbox = sc.inbox
          /\ concurrent_updates = sc.concurrent_updates
          /\ budget = sc.budget
    /\ NoChunkCall

(***************************************************************************)
(* Steps of a coroutine.                                                   *)
(***************************************************************************)

\* task with the fields of r set for coroutine t.
Upd(t, r) ==
    [task EXCEPT ![t] = [f \in DOMAIN @ |-> IF f \in DOMAIN r THEN r[f] ELSE @[f]]]

\* Coroutine t runs from its position pc: the event loop is free or its own.
At(t, pc) == running \in {0, t} /\ task[t].pc = pc

\* Coroutine t goes on with the fields of r; it gives the event loop back
\* when its new position is an await.
Goto(t, r) ==
    /\ task' = Upd(t, r)
    /\ running' = IF r.pc \in Parked THEN 0 ELSE t

Nominal == budget' = budget
Deviation == budget > 0 /\ budget' = budget - 1

\* update.message.reply_text(text): the message is delivered ("ok") or the
\* call raises and nothing is delivered.
ReplyText(t, text, outcome) ==
    reply_calls' = [reply_calls EXCEPT ![t] =
                        Append(@, [text |-> text, outcome |-> outcome])]

\* The framework starts handle_message for the next message (on the first
\* free coroutine).
Receive(t) ==
    /\ running = 0
    /\ task[t].pc \in Ended
    /\ \A o \in Tasks : o < t => task[o].pc \notin Ended
    /\ concurrent_updates \/ \A o \in Tasks : task[o].pc \in Ended
    /\ inbox # <<>>
    /\ inbox' = Tail(inbox)
    /\ received' = received + 1
    /\ task' = [task EXCEPT ![t] =
                    [IdleTask EXCEPT !.pc = "filter", !.msg = received + 1,
                                     !.user_id = Head(inbox).user_id,
                                     !.user_text = Head(inbox).text]]
    /\ running' = t
    /\ reply_calls' = [reply_calls EXCEPT ![t] = <<>>]
    /\ translate_calls' = [translate_calls EXCEPT ![t] = <<>>]
    /\ gen_calls' = [gen_calls EXCEPT ![t] = <<>>]
    /\ UNCHANGED <<chunk_vars, concurrent_updates, user_conversation_history, budget, recorded>>

\* Line 192.
Filter(t) ==
    /\ At(t, "filter")
    /\ IF inappropriate_content_search(task[t].user_text)
       THEN Goto(t, [pc |-> "refuse"])
       ELSE Goto(t, [pc |-> "typing"])
    /\ UNCHANGED <<chunk_vars, concurrent_updates, user_conversation_history, inbox, budget, received, reply_calls,
                   translate_calls, gen_calls, recorded>>

\* Lines 193-194: the refusal is sent, outside the try block.
Refuse(t) ==
    /\ At(t, "refuse")
    /\ \/ /\ Nominal
          /\ ReplyText(t, REFUSAL_MESSAGE, "ok")
          /\ Goto(t, [pc |-> "done"])
       \/ /\ Deviation        \* reply_text raises
          /\ ReplyText(t, REFUSAL_MESSAGE, "raise")
          /\ Goto(t, [pc |-> "escaped"])
    /\ UNCHANGED <<chunk_vars, concurrent_updates, user_conversation_history, inbox, received,
                   translate_calls, gen_calls, recorded>>

\* Line 197: the typing signal, outside the try block.
Typing(t) ==
    /\ At(t, "typing")
    /\ \/ /\ Nominal
          /\ Goto(t, [pc |-> "translate_begin", call |-> "in",
                      text |-> task[t].user_text,
                      source_lang |-> "om", target_lang |-> "en"])
       \/ /\ Deviation        \* send_chat_action raises
          /\ Goto(t, [pc |-> "escaped"])
    /\ UNCHANGED <<chunk_vars, concurrent_updates, user_conversation_history, inbox, received, reply_calls,
                   translate_calls, gen_calls, recorded>>

\* A handler that hands the user's text, not its translation, to line 206.
PassesUserText(t, value) ==
    IF task[t].call = "in"
    THEN Goto(t, [pc |-> "ai_begin", translated_input |-> task[t].user_text])
    ELSE Goto(t, [pc |-> "reply", translated_response |-> value])

\* translate_text returns value: to line 202 or to line 214.
TranslateReturn(t, value) ==
    IF task[t].call = "in"
    THEN Goto(t, [pc |-> "ai_begin", translated_input |-> value])
    ELSE Goto(t, [pc |-> "reply", translated_response |-> value])

\* Lines 96-97, and lines 112-114 when there is no chunk.
TranslateBegin(t) ==
    /\ At(t, "translate_begin")
    /\ LET chunks == chunk_text(task[t].text, MAX_TRANSLATION_LENGTH)
       IN  IF chunks = <<>>
           THEN TranslateReturn(t, Join(<<>>, " "))
           ELSE Goto(t, [pc |-> "translate_chunk", chunks |-> chunks,
                         translated_chunks |-> <<>>, i |-> 1])
    /\ UNCHANGED <<chunk_vars, concurrent_updates, user_conversation_history, inbox, budget, received, reply_calls,
                   translate_calls, gen_calls, recorded>>

\* Lines 99-109 for one chunk, lines 112-114 after the only chunk, and lines
\* 116-122 when the primitive raises.
TranslateChunk(t) ==
    /\ At(t, "translate_chunk")
    /\ LET chunk == task[t].chunks[task[t].i]
           call(outcome) == [chunk |-> chunk, source_lang |-> task[t].source_lang,
                             target_lang |-> task[t].target_lang,
                             outcome |-> outcome]
           ok(raw) ==
               LET done == Append(task[t].translated_chunks, fix_html_entities(raw))
               IN  /\ translate_calls' =
                          [translate_calls EXCEPT ![t] = Append(@, call("ok"))]
                   /\ IF Len(task[t].chunks) > 1
                      THEN Goto(t, [pc |-> "chunk_delay", translated_chunks |-> done])
                      ELSE TranslateReturn(t, Join(done, " "))
       IN  \/ /\ Nominal
              /\ ok(RawTranslation(chunk, task[t].target_lang))
           \/ /\ Deviation      \* translator.translate raises
              /\ translate_calls' =
                     [translate_calls EXCEPT ![t] = Append(@, call("raise"))]
              /\ TranslateReturn(t, TranslationFallback(task[t].text,
                                                        task[t].source_lang,
                                                        task[t].target_lang))
    /\ UNCHANGED <<chunk_vars, concurrent_updates, user_conversation_history, inbox, received, reply_calls,
                   gen_calls, recorded>>

\* Line 109 is over: the next chunk, or lines 112-114.
ChunkDelay(t) ==
    /\ At(t, "chunk_delay")
    /\ IF task[t].i < Len(task[t].chunks)
       THEN Goto(t, [pc |-> "translate_chunk", i |-> task[t].i + 1])
       ELSE TranslateReturn(t, Join(task[t].translated_chunks, " "))
    /\ UNCHANGED <<chunk_vars, concurrent_updates, user_conversation_history, inbox, budget, received, reply_calls,
                   translate_calls, gen_calls, recorded>>

\* Lines 126-132.
AiBegin(t) ==
    /\ At(t, "ai_begin")
    /\ Goto(t, [pc |-> "ai_call", retries |-> 0,
                context |-> BuildContext(user_conversation_history,
                                         task[t].user_id)])
    /\ UNCHANGED <<chunk_vars, concurrent_updates, user_conversation_history, inbox, budget, received, reply_calls,
                   translate_calls, gen_calls, recorded>>

\* Line 169: the exceptions the retry loop handles.  "transport" stands for
\* any requests.exceptions.RequestException (connection, timeout, HTTP status);
\* "malformed" for the IndexError, KeyError or TypeError that line 147 raises
\* on a reply without the expected list element or 'generated_text' field.
FailureKinds == {"transport", "malformed"}

\* A handler that catches Exception instead of RequestException.
CatchesEverything(failure) == failure \in FailureKinds

IsRequestException(failure) == failure = "transport"

\* Lines 129-137: the prompt of every attempt uses the context read before
\* the loop.
PromptContext(t) == task[t].context

\* Lines 134-175: one pass of the retry loop.
AiCall(t) ==
    /\ At(t, "ai_call")
    /\ RetriesLeft(task[t].retries)
    /\ LET text == task[t].translated_input
           prompt == BuildPrompt(PromptContext(t), text)
           call(outcome, generated_text) ==
               [prompt |-> prompt, outcome |-> outcome,
                generated_text |-> generated_text]
           ok(generated_text) ==
               LET ai_response == LimitLength(ExtractAssistant(generated_text))
                   turn == Turn(text, ai_response)
               IN  /\ gen_calls' = [gen_calls EXCEPT ![t] =
                                        Append(@, call("ok", generated_text))]
                   /\ user_conversation_history' =
                          AppendTurn(user_conversation_history, task[t].user_id, turn)
                   /\ recorded' = Append(recorded,
                          [msg |-> task[t].msg, user_id |-> task[t].user_id,
                           turn |-> turn])
                   /\ Goto(t, [pc |-> "check", ai_response |-> ai_response])
       IN  \/ /\ Nominal
              /\ ok(prompt \o PLAIN_REPLY)
           \/ /\ Deviation
              /\ \E reply \in UnusualReplies : ok(prompt \o reply)
           \/ /\ Deviation
              /\ \E failure \in FailureKinds :
                    /\ gen_calls' = [gen_calls EXCEPT ![t] =
                                         Append(@, call(failure, ""))]
                    /\ IF IsRequestException(failure)
                       THEN \* lines 169-175
                            IF RetriesLeft(task[t].retries + 1)
                            THEN Goto(t, [pc |-> "retry_delay",
                                          retries |-> task[t].retries + 1])
                            ELSE Goto(t, [pc |-> "check",
                                          retries |-> task[t].retries + 1,
                                          ai_response |-> AI_FALLBACK_MESSAGE])
                       ELSE \* no handler in get_ai_response: line 220 catches it
                            Goto(t, [pc |-> "reply_error"])
              /\ UNCHANGED <<user_conversation_history, recorded>>
    /\ UNCHANGED <<chunk_vars, concurrent_updates, inbox, received, reply_calls, translate_calls>>

\* Line 173 is over.
RetryDelay(t) ==
    /\ At(t, "retry_delay")
    /\ Goto(t, [pc |-> "ai_call"])
    /\ UNCHANGED <<chunk_vars, concurrent_updates, user_conversation_history, inbox, budget, received, reply_calls,
                   translate_calls, gen_calls, recorded>>

\* Line 209: the test of get_ai_response's result.
IsErrorResponse(ai_response) == Contains(ai_response, AI_FALLBACK_MARKER)

\* Lines 209 and 214.
CheckResponse(t) ==
    /\ At(t, "check")
    /\ IF IsErrorResponse(task[t].ai_response)
       THEN Goto(t, [pc |-> "reply_fallback"])
       ELSE Goto(t, [pc |-> "translate_begin", call |-> "out",
                     text |-> task[t].ai_response,
                     source_lang |-> "en", target_lang |-> "om"])
    /\ UNCHANGED <<chunk_vars, concurrent_updates, user_conversation_history, inbox, budget, received, reply_calls,
                   translate_calls, gen_calls, recorded>>

\* Lines 210-211, inside the try block.
ReplyFallback(t) ==
    /\ At(t, "reply_fallback")
    /\ \/ /\ Nominal
          /\ ReplyText(t, task[t].ai_response, "ok")
          /\ Goto(t, [pc |-> "done"])
       \/ /\ Deviation        \* reply_text raises: line 220 catches it
          /\ ReplyText(t, task[t].ai_response, "raise")
          /\ Goto(t, [pc |-> "reply_error"])
    /\ UNCHANGED <<chunk_vars, concurrent_updates, user_conversation_history, inbox, received,
                   translate_calls, gen_calls, recorded>>

\* Line 218, inside the try block.
Reply(t) ==
    /\ At(t, "reply")
    /\ \/ /\ Nominal
          /\ ReplyText(t, task[t].translated_response, "ok")
          /\ Goto(t, [pc |-> "done"])
       \/ /\ Deviation        \* reply_text raises: line 220 catches it
          /\ ReplyText(t, task[t].translated_response, "raise")
          /\ Goto(t, [pc |-> "reply_error"])
    /\ UNCHANGED <<chunk_vars, concurrent_updates, user_conversation_history, inbox, received,
                   translate_calls, gen_calls, recorded>>

\* Lines 220-224: the handler of the try block.
ReplyError(t) ==
    /\ At(t, "reply_error")
    /\ \/ /\ Nominal
          /\ ReplyText(t, TECHNICAL_ERROR_MESSAGE, "ok")
          /\ Goto(t, [pc |-> "done"])
       \/ /\ Deviation        \* reply_text raises inside the handler
          /\ ReplyText(t, TECHNICAL_ERROR_MESSAGE, "raise")
          /\ Goto(t, [pc |-> "escaped"])
    /\ UNCHANGED <<chunk_vars, concurrent_updates, user_conversation_history, inbox, received,
                   translate_calls, gen_calls, recorded>>

Next ==
    \E t \in Tasks :
        \/ Receive(t)
        \/ Filter(t)
        \/ Refuse(t)
        \/ Typing(t)
        \/ TranslateBegin(t)
        \/ TranslateChunk(t)
        \/ ChunkDelay(t)
        \/ AiBegin(t)
        \/ AiCall(t)
        \/ RetryDelay(t)
        \/ CheckResponse(t)
        \/ ReplyFallback(t)
        \/ Reply(t)
        \/ ReplyError(t)

Spec == Init /\ [][Next]_vars

(***************************************************************************)
(* chunk_text called directly, on every short text over a small alphabet.  *)
(***************************************************************************)

ChunkAlphabet == {"a", "b", ".", " "}

\* The strings over ChunkAlphabet of length n.
RECURSIVE StringsOfLen(_)
StringsOfLen(n) ==
    IF n = 0 THEN {""}
    ELSE {s \o c : s \in StringsOfLen(n - 1), c \in ChunkAlphabet}

ChunkTexts == UNION {StringsOfLen(n) : n \in 0..MaxTextLen}

ChunkInit ==
    /\ PipelineInit
    /\ inbox = <<>>
    /\ concurrent_updates = FALSE
    /\ budget = 0
    /\ ct_pc = "call"
    /\ ct_text \in ChunkTexts
    /\ ct_max_length \in 1..MaxChunkLen
    /\ ct_chunks = <<>>

ChunkCall ==
    /\ ct_pc = "call"
    /\ ct_pc' = "return"
    /\ ct_chunks' = chunk_text(ct_text, ct_max_length)
    /\ UNCHANGED <<ct_text, ct_max_length, user_conversation_history, task,
                   running, inbox, concurrent_updates, budget, received,
                   reply_calls, translate_calls, gen_calls, recorded>>

ChunkNext == ChunkCall

ChunkSpec == ChunkInit /\ [][ChunkNext]_vars

(***************************************************************************)
(* What the properties below read from the state.                          *)
(***************************************************************************)

\* The replies delivered to the chat for the message coroutine t handles.
Sent(t) ==
    LET ok == SelectSeq(reply_calls[t], LAMBDA c : c.outcome = "ok")
    IN  [k \in 1..Len(ok) |-> ok[k].text]

\* The turns written to the history for user u, oldest first.
TurnsOf(u) ==
    LET mine == SelectSeq(recorded, LAMBDA r : r.user_id = u)
    IN  [k \in 1..Len(mine) |-> mine[k].turn]

\* The history writes made while handling message m.
RecordedBy(m) == SelectSeq(recorded, LAMBDA r : r.msg = m)

\* The list stored for user u ([] when the user has no entry).
HistoryOf(u) ==
    IF u \in DOMAIN user_conversation_history
    THEN user_conversation_history[u] ELSE <<>>

Last(seq) == seq[Len(seq)]

\* The number of calls of the generation primitive, made for the message of
\* coroutine t, that ended with the given outcome.
CountOutcome(t, outcome) ==
    Cardinality({k \in 1..Len(gen_calls[t]) : gen_calls[t][k].outcome = outcome})

\* Coroutine t is inside get_ai_response.
InGetAiResponse(t) == task[t].pc \in {"ai_begin", "ai_call", "retry_delay"}

\* get_ai_response has returned after the primitive failed on every call.
Exhausted(t) ==
    /\ gen_calls[t] # <<>>
    /\ CountOutcome(t, "transport") = Len(gen_calls[t])
    /\ ~InGetAiResponse(t)

\* get_ai_response's last call of the primitive succeeded.
Succeeded(t) == gen_calls[t] # <<>> /\ Last(gen_calls[t]).outcome = "ok"

\* Coroutine t has just called the generation primitive, with this outcome.
GenStep(t, outcome) ==
    /\ Len(gen_calls'[t]) = Len(gen_calls[t]) + 1
    /\ Last(gen_calls'[t]).outcome = outcome

\* Coroutine t has just called the translation primitive, with this outcome.
TranslateStep(t, outcome) ==
    /\ Len(translate_calls'[t]) = Len(translate_calls[t]) + 1
    /\ Last(translate_calls'[t]).outcome = outcome

\* The texts users send.
InputTexts ==
    UNION {{s.inbox[k].text : k \in 1..Len(s.inbox)} : s \in Scenarios}

\* The texts that hold one of the denylisted terms, in any letter case.
DenylistedTexts ==
    {text \in InputTexts :
        \E term \in {"sexy", "porn", "nude", "sex", "xxx", "adult", "nsfw"} :
            \E i \in 1..Len(text) : MatchAtIgnoreCase(text, term, i)}

HasDenylistedTerm(text) == text \in DenylistedTexts

(***************************************************************************)
(* C1                                                                      *)
(***************************************************************************)

\* C1: after any sequence of get_ai_response calls, every user's history holds
\* at most 5 turns and equals the last min(n, 5) of the n turns recorded for
\* that user, in the order they were appended.
C1_HistoryIsLastFiveRecorded ==
    /\ DOMAIN user_conversation_history \subseteq Users
    /\ \A u \in Users :
          LET turns == TurnsOf(u)
              n     == Len(turns)
              held  == HistoryOf(u)
          IN  /\ Len(held) <= 5
              /\ Len(held) = IF n < 5 THEN n ELSE 5
              /\ \A k \in 1..Len(held) : held[k] = turns[n - Len(held) + k]

\* A user for whom more than 5 turns were recorded: the oldest was evicted.
C1_Overflowed ==
    \E u \in Users : Len(TurnsOf(u)) > 5 /\ Len(HistoryOf(u)) = 5

(***************************************************************************)
(* C2                                                                      *)
(***************************************************************************)

C2_State ==
    \A t \in Tasks :
        /\ Len(gen_calls[t]) <= 3
        /\ Exhausted(t) =>
              /\ Len(gen_calls[t]) = 3
              /\ task[t].ai_response = AI_FALLBACK_MESSAGE
              /\ RecordedBy(task[t].msg) = <<>>

C2_Step ==
    \A t \in Tasks :
        GenStep(t, "transport") =>
            user_conversation_history' = user_conversation_history

\* C2: when the generation primitive fails with a transport-class error on
\* every call, get_ai_response makes exactly 3 calls, returns the fixed
\* fallback message, and no failing call changes any user's history.
C2_ExhaustedRetries == [](C2_State) /\ [][C2_Step]_vars

\* A message answered with the fallback after three failed calls.
C2_ExhaustedReached ==
    \E t \in Tasks :
        /\ Exhausted(t)
        /\ task[t].pc = "done"
        /\ Sent(t) = <<AI_FALLBACK_MESSAGE>>

(***************************************************************************)
(* C3                                                                      *)
(***************************************************************************)

C3_State ==
    \A t \in Tasks :
        Succeeded(t) =>
            LET n  == Len(gen_calls[t])
                ok == gen_calls[t][n]
                by == RecordedBy(task[t].msg)
            IN  /\ ~InGetAiResponse(t)
                /\ CountOutcome(t, "transport") = n - 1
                /\ task[t].retries = n - 1
                /\ \A j \in 1..n : gen_calls[t][j].prompt = ok.prompt
                /\ ok.generated_text = ok.prompt \o PLAIN_REPLY
                       => task[t].ai_response = "I am fine, thank you!"
                /\ Len(by) = 1
                /\ by[1].turn = "User: " \o task[t].translated_input
                                    \o "\nAssistant: " \o task[t].ai_response

C3_Step ==
    \A t \in Tasks :
        GenStep(t, "ok") =>
            LET u == task[t].user_id
            IN  /\ task'[t].ai_response =
                       LimitLength(ExtractAssistant(Last(gen_calls'[t]).generated_text))
                /\ task'[t].ai_response # AI_FALLBACK_MESSAGE
                /\ Len(recorded') = Len(recorded) + 1
                /\ Last(recorded').user_id = u
                /\ u \in DOMAIN user_conversation_history'
                /\ Last(user_conversation_history'[u]) = Last(recorded').turn
                /\ Len(user_conversation_history'[u]) =
                       IF Len(HistoryOf(u)) < 5 THEN Len(HistoryOf(u)) + 1 ELSE 5
                /\ \A o \in DOMAIN user_conversation_history' \ {u} :
                       /\ o \in DOMAIN user_conversation_history
                       /\ user_conversation_history'[o] = user_conversation_history[o]

\* C3: when the generation primitive fails with a transport-class error on
\* its first k calls (k < 3) and then succeeds, get_ai_response makes exactly
\* k+1 calls with the same prompt, returns the text extracted from the
\* successful call, has a retry count of k, and appends exactly one turn to
\* that user's history.
C3_RetryThenSuccess == [](C3_State) /\ [][C3_Step]_vars

\* Two failed calls, then a successful third.
C3_TwoFailuresThenSuccess ==
    \E t \in Tasks :
        /\ Len(gen_calls[t]) = 3
        /\ gen_calls[t][1].outcome = "transport"
        /\ gen_calls[t][2].outcome = "transport"
        /\ gen_calls[t][3].outcome = "ok"
        /\ task[t].retries = 2
        /\ task[t].pc = "done"

(***************************************************************************)
(* C4                                                                      *)
(***************************************************************************)

C4_State ==
    \A t \in Tasks :
        task[t].pc # "idle" =>
            IF HasDenylistedTerm(task[t].user_text)
            THEN /\ task[t].pc \in {"filter", "refuse", "done", "escaped"}
                 /\ translate_calls[t] = <<>>
                 /\ gen_calls[t] = <<>>
                 /\ RecordedBy(task[t].msg) = <<>>
                 /\ Len(reply_calls[t]) <= 1
                 /\ \A k \in 1..Len(reply_calls[t]) :
                        reply_calls[t][k].text = REFUSAL_MESSAGE
                 /\ task[t].pc = "done" => Sent(t) = <<REFUSAL_MESSAGE>>
            ELSE /\ task[t].pc # "refuse"
                 /\ \A k \in 1..Len(reply_calls[t]) :
                        reply_calls[t][k].text # REFUSAL_MESSAGE
                 \* past the typing signal, inbound translation has begun
                 \* (unless the typing signal itself raised)
                 /\ task[t].pc \notin {"filter", "typing"} =>
                        \/ task[t].call \in {"in", "out"}
                        \/ task[t].pc = "escaped" /\ reply_calls[t] = <<>>

C4_Step ==
    \A t \in Tasks :
        /\ (task[t].pc = "filter" /\ task'[t].pc # "filter") =>
              /\ user_conversation_history' = user_conversation_history
              /\ task'[t].pc = IF HasDenylistedTerm(task[t].user_text)
                               THEN "refuse" ELSE "typing"
        /\ (task[t].pc = "refuse" /\ task'[t].pc # "refuse") =>
              user_conversation_history' = user_conversation_history
        /\ (task[t].pc = "typing" /\ task'[t].pc \notin {"typing", "escaped"}) =>
              /\ task'[t].pc = "translate_begin"
              /\ task'[t].call = "in"
              /\ task'[t].text = task[t].user_text

\* C4: a text that matches the denylist (in any letter case) short-circuits
\* handle_message: no translation call, no generation call, no history
\* change, and the refusal as the only reply; a text without a denylisted
\* term is never refused and goes on to inbound translation.
C4_FilterShortCircuits == [](C4_State) /\ [][C4_Step]_vars

\* A denylisted text (upper-case term) answered with the refusal.
C4_Refused ==
    \E t \in Tasks :
        /\ task[t].user_text = DENYLISTED_TEXT
        /\ task[t].pc = "done"
        /\ Sent(t) = <<REFUSAL_MESSAGE>>

(***************************************************************************)
(* C5                                                                      *)
(***************************************************************************)

\* C5: once get_ai_response has returned, handle_message routes by its
\* outcome, whatever the generated text: after exhausted retries the fallback
\* is sent directly and outbound translation is never invoked; after a
\* success (a turn was recorded) the pipeline goes on to outbound translation
\* carrying the generated text.
C5_RoutedByOutcome ==
    \A t \in Tasks :
        /\ Exhausted(t) =>
              /\ task[t].call # "out"
              /\ task[t].pc \in {"check", "reply_fallback", "reply_error",
                                 "done", "escaped"}
        /\ (Succeeded(t) /\ RecordedBy(task[t].msg) # <<>>) =>
              /\ task[t].pc # "reply_fallback"
              /\ task[t].pc # "check" =>
                    /\ task[t].call = "out"
                    /\ task[t].text = task[t].ai_response

(***************************************************************************)
(* C6                                                                      *)
(***************************************************************************)

\* C6: an exception raised by a collaborator of handle_message (the typing
\* signal, translation, generation, sending the reply) never propagates out
\* of handle_message; it is answered with the technical-error message.
C6_NothingEscapes ==
    \A t \in Tasks :
        /\ task[t].pc # "escaped"
        /\ (task[t].pc = "done" /\ CountOutcome(t, "malformed") > 0) =>
              Sent(t) = <<TECHNICAL_ERROR_MESSAGE>>

(***************************************************************************)
(* C7                                                                      *)
(***************************************************************************)

\* C7: when the handling of a message has ended, exactly one reply has been
\* sent for it: the refusal, the inference fallback, the translated reply,
\* the translation apology, or the technical-error message.
C7_ExactlyOneReply ==
    \A t \in Tasks :
        task[t].pc \in {"done", "escaped"} =>
            /\ Len(Sent(t)) = 1
            /\ Sent(t)[1] \in {REFUSAL_MESSAGE, AI_FALLBACK_MESSAGE,
                               task[t].translated_response,
                               TRANSLATION_APOLOGY, TECHNICAL_ERROR_MESSAGE}

(***************************************************************************)
(* C8                                                                      *)
(***************************************************************************)

C8_State ==
    \A t \in Tasks :
        LET calls == translate_calls[t]
        IN  \A k \in 1..Len(calls) :
                calls[k].outcome = "raise" =>
                    \A j \in (k + 1)..Len(calls) :
                        calls[j].source_lang # calls[k].source_lang

C8_Step ==
    \A t \in Tasks :
        TranslateStep(t, "raise") =>
            IF task[t].source_lang = "om" /\ task[t].target_lang = "en"
            THEN /\ task'[t].pc = "ai_begin"
                 /\ task'[t].translated_input = task[t].text
                 /\ task'[t].translated_input = task[t].user_text
            ELSE /\ task[t].source_lang = "en" /\ task[t].target_lang = "om"
                 /\ task'[t].pc = "reply"
                 /\ task'[t].translated_response = TRANSLATION_APOLOGY
                 /\ task'[t].translated_response # task[t].text

\* C8: when the translation primitive fails on a chunk, translate_text
\* returns normally, calls the primitive for no later chunk, returns nothing
\* of what it had translated, and yields the untranslated input for om->en
\* and the fixed apology (not the input) for en->om.
C8_TranslationFallback == [](C8_State) /\ [][C8_Step]_vars

\* The second of three chunks failed after the first was translated: the
\* handler went on with the whole untranslated input and made no third call.
C8_FailedMidway ==
    \E t \in Tasks :
        /\ task[t].pc = "ai_begin"
        /\ Len(task[t].chunks) = 3
        /\ Len(translate_calls[t]) = 2
        /\ translate_calls[t][1].outcome = "ok"
        /\ translate_calls[t][2].outcome = "raise"
        /\ task[t].translated_input = task[t].user_text

(***************************************************************************)
(* C9                                                                      *)
(***************************************************************************)

\* C9 as stated: a reply that cannot be parsed is handled like a transport
\* failure: it is caught in the retry loop and consumes one attempt, and
\* get_ai_response goes on to retry or to return the fallback.
C9_ParsingFailureConsumesRetry ==
    \A t \in Tasks :
        /\ task[t].retries =
               CountOutcome(t, "transport") + CountOutcome(t, "malformed")
        /\ (gen_calls[t] # <<>> /\ Last(gen_calls[t]).outcome = "malformed") =>
               task[t].pc \in {"retry_delay", "check", "reply_fallback", "done"}

\* C9 as amended: the exception of a reply that cannot be parsed is not
\* caught in get_ai_response: it consumes no attempt, ends the calls of the
\* primitive, records no turn, and handle_message answers it with the
\* technical-error message, never with the fallback.
C9_ParsingFailurePropagates ==
    \A t \in Tasks :
        CountOutcome(t, "malformed") > 0 =>
            /\ CountOutcome(t, "malformed") = 1
            /\ Last(gen_calls[t]).outcome = "malformed"
            /\ task[t].retries = CountOutcome(t, "transport")
            /\ task[t].retries = Len(gen_calls[t]) - 1
            /\ task[t].pc \in {"reply_error", "done", "escaped"}
            /\ RecordedBy(task[t].msg) = <<>>
            /\ \A k \in 1..Len(reply_calls[t]) :
                   reply_calls[t][k].text = TECHNICAL_ERROR_MESSAGE
            /\ task[t].pc = "done" => Sent(t) = <<TECHNICAL_ERROR_MESSAGE>>

\* A transport failure, then a reply without the expected fields: the user
\* got the technical-error message.
C9_MalformedAnswered ==
    \E t \in Tasks :
        /\ Len(gen_calls[t]) = 2
        /\ gen_calls[t][1].outcome = "transport"
        /\ gen_calls[t][2].outcome = "malformed"
        /\ task[t].pc = "done"
        /\ Sent(t) = <<TECHNICAL_ERROR_MESSAGE>>

(***************************************************************************)
(* C10                                                                     *)
(***************************************************************************)

\* C10: the chunks chunk_text returns, joined with single spaces in output
\* order, hold exactly the whitespace-separated words of the input, in their
\* original order.
C10_ChunksKeepWords ==
    ct_pc = "return" => Words(Join(ct_chunks, " ")) = Words(ct_text)

(***************************************************************************)
(* C11                                                                     *)
(***************************************************************************)

\* C11: for a non-empty text, chunk_text returns no empty chunk, whatever
\* max_length is.
C11_NoEmptyChunk ==
    (ct_pc = "return" /\ ct_text # "") =>
        \A k \in 1..Len(ct_chunks) : ct_chunks[k] # ""

(***************************************************************************)
(* C17                                                                     *)
(***************************************************************************)

\* C17: every chunk chunk_text returns is at most max_length long, unless it
\* is a single word that is itself longer than max_length.
C17_ChunksWithinLength ==
    ct_pc = "return" =>
        \A k \in 1..Len(ct_chunks) :
            \/ Len(ct_chunks[k]) <= ct_max_length
            \/ Words(ct_chunks[k]) = <<ct_chunks[k]>>

(***************************************************************************)
(* C12                                                                     *)
(***************************************************************************)

\* The last min(3, n) of the n turns of h, oldest first, each on its lines.
LastThreeTurns(h) ==
    LET n == Len(h)
    IN  IF n = 0 THEN ""
        ELSE IF n = 1 THEN h[1] \o "\n"
        ELSE IF n = 2 THEN h[1] \o "\n" \o h[2] \o "\n"
        ELSE h[n - 2] \o "\n" \o h[n - 1] \o "\n" \o h[n] \o "\n"

\* C12: the prompt get_ai_response sends is the last min(3, n) turns stored
\* for the user when the call reads the history (none for an unknown user, and
\* never a turn of another user), oldest first, then the line 'User: <text>'
\* and the cue 'Assistant:'.
C12_PromptFromLastThreeTurns ==
    \A t \in Tasks :
        /\ (task[t].pc = "ai_call" /\ task[t].retries = 0) =>
              task[t].context = LastThreeTurns(HistoryOf(task[t].user_id))
        /\ \A k \in 1..Len(gen_calls[t]) :
              gen_calls[t][k].prompt =
                  task[t].context \o "User: " \o task[t].translated_input
                                  \o "\nAssistant:"

\* A prompt sent (in a call that then failed) for a user with more than 3
\* stored turns.
C12_PromptSentWithFullHistory ==
    \E t \in Tasks :
        LET u == task[t].user_id
            h == HistoryOf(u)
        IN  /\ Len(gen_calls[t]) = 1
            /\ gen_calls[t][1].outcome = "transport"
            /\ Len(h) > 3
            /\ gen_calls[t][1].prompt =
                   LastThreeTurns(h) \o "User: " \o task[t].translated_input
                                     \o "\nAssistant:"

(***************************************************************************)
(* C13                                                                     *)
(***************************************************************************)

\* One append followed by the truncation to 5.
AppendAndTruncate(h, turn) ==
    LET appended == Append(h, turn)
    IN  IF Len(appended) > 5 THEN Tail(appended) ELSE appended

\* The appends of turns applied one after another to an empty history.
RECURSIVE ApplyAppends(_)
ApplyAppends(turns) ==
    IF turns = <<>> THEN <<>>
    ELSE AppendAndTruncate(ApplyAppends(SubSeq(turns, 1, Len(turns) - 1)),
                           turns[Len(turns)])

C13_State ==
    /\ \A u \in Users : HistoryOf(u) = ApplyAppends(TurnsOf(u))
    /\ \A t \in Tasks :
          Len(RecordedBy(task[t].msg)) = IF Succeeded(t) THEN 1 ELSE 0

C13_Step ==
    \A t \in Tasks :
        GenStep(t, "ok") =>
            LET u == task[t].user_id
            IN  /\ Len(recorded') = Len(recorded) + 1
                /\ Last(recorded').msg = task[t].msg
                /\ user_conversation_history'[u] =
                       AppendAndTruncate(HistoryOf(u), Last(recorded').turn)

\* C13: when messages of one user are handled concurrently, no history update
\* is lost: every successful inference adds exactly one turn to what the
\* history holds at that moment, and the history is what the appends (each
\* followed by the truncation to 5) give when applied one after another in
\* the order the inferences succeeded.
C13_NoLostUpdate == [](C13_State) /\ [][C13_Step]_vars

\* Two messages of one user in flight together: both read the history
\* before either wrote, and both turns are in it.
C13_BothTurnsKept ==
    \E t1, t2 \in Tasks :
        /\ t1 # t2
        /\ task[t1].user_id = task[t2].user_id
        /\ Succeeded(t1) /\ Succeeded(t2)
        /\ task[t1].context = "" /\ task[t2].context = ""
        /\ Len(HistoryOf(task[t1].user_id)) = 2

(***************************************************************************)
(* C14                                                                     *)
(***************************************************************************)

\* C14: a coroutine that is at an external call (a translation call, a
\* generation call, the delay between chunks, the delay between retries) does
\* not hold the event loop: the handler of another user's message that is in
\* flight is able to take its next step.
C14_CallsAreSuspensionPoints ==
    /\ \A t, o \in Tasks :
          ( /\ t # o
            /\ task[t].pc \in {"translate_chunk", "ai_call",
                               "chunk_delay", "retry_delay"}
            /\ task[o].pc \notin Ended
            /\ task[o].user_id # task[t].user_id )
          => running \in {0, o}
    /\ \A t \in Tasks :
          task[t].pc \in {"translate_chunk", "ai_call",
                          "chunk_delay", "retry_delay"} => running # t

(***************************************************************************)
(* C15                                                                     *)
(***************************************************************************)

\* The calls of the translation primitive, made for the message of coroutine
\* t, from the given language.
TranslateCallsFrom(t, source_lang) ==
    SelectSeq(translate_calls[t], LAMBDA c : c.source_lang = source_lang)

\* What inbound translation returns to handle_message: the user's text when
\* a call failed, else the answers for its (at most three) chunks, unescaped
\* and joined by spaces.
InboundResult(t) ==
    LET calls == TranslateCallsFrom(t, "om")
        answer(k) == "\"" \o calls[k].chunk \o "\" (en & it's)"
    IN  IF calls # <<>> /\ calls[Len(calls)].outcome = "raise"
        THEN task[t].user_text
        ELSE IF Len(calls) = 0 THEN ""
        ELSE IF Len(calls) = 1 THEN answer(1)
        ELSE IF Len(calls) = 2 THEN answer(1) \o " " \o answer(2)
        ELSE answer(1) \o " " \o answer(2) \o " " \o answer(3)

C15_State ==
    \A t \in Tasks :
        LET calls == translate_calls[t]
        IN  \* inbound translation comes before every generation call
            /\ (task[t].call = "in" /\ task[t].pc \in {"translate_begin",
                    "translate_chunk", "chunk_delay", "ai_begin"}) =>
                  gen_calls[t] = <<>> /\ RecordedBy(task[t].msg) = <<>>
            \* the primitive's input is the inbound translation's result
            /\ \A k \in 1..Len(gen_calls[t]) :
                  /\ gen_calls[t][k].prompt =
                         task[t].context \o "User: " \o task[t].translated_input
                                         \o "\nAssistant:"
                  /\ task[t].translated_input = InboundResult(t)
            \* outbound translation starts after a success and the write
            /\ (task[t].call = "out" \/ TranslateCallsFrom(t, "en") # <<>>) =>
                  /\ Succeeded(t)
                  /\ Len(RecordedBy(task[t].msg)) = 1
                  /\ task[t].text = task[t].ai_response
            \* no inbound call after an outbound one
            /\ \A j, k \in 1..Len(calls) :
                  (j < k /\ calls[j].source_lang = "en") =>
                      calls[k].source_lang = "en"
            \* the translated reply is sent after outbound translation
            /\ \A k \in 1..Len(reply_calls[t]) :
                  task[t].call = "in" =>
                      reply_calls[t][k].text \in
                          {REFUSAL_MESSAGE, TECHNICAL_ERROR_MESSAGE,
                           task[t].ai_response}

C15_Step ==
    \A t \in Tasks :
        \* a generation call: inbound translation is over, outbound not begun
        /\ Len(gen_calls'[t]) = Len(gen_calls[t]) + 1 =>
              /\ task[t].pc = "ai_call"
              /\ task[t].call = "in"
              /\ TranslateCallsFrom(t, "en") = <<>>
              /\ translate_calls' = translate_calls
        \* a translation call is inbound before, outbound after, the write
        /\ Len(translate_calls'[t]) = Len(translate_calls[t]) + 1 =>
              IF Last(translate_calls'[t]).source_lang = "om"
              THEN gen_calls[t] = <<>> /\ RecordedBy(task[t].msg) = <<>>
              ELSE /\ Succeeded(t)
                   /\ Len(RecordedBy(task[t].msg)) = 1
                   /\ gen_calls' = gen_calls
                   /\ recorded' = recorded
        \* a reply of handle_message's last lines comes after everything else
        /\ (Len(reply_calls'[t]) = Len(reply_calls[t]) + 1
                /\ task[t].pc = "reply") =>
              /\ task[t].call = "out"
              /\ Succeeded(t)
              /\ Last(reply_calls'[t]).text = task[t].translated_response
              /\ translate_calls' = translate_calls
              /\ gen_calls' = gen_calls

\* C15: for a message that is not refused, handle_message works in the order
\* inbound translation, history read, generation attempts, history write,
\* outbound translation, reply: no generation call before inbound translation
\* has returned, the primitive's input is what inbound translation returned
\* (the translation, or the user's text when it degraded), and outbound
\* translation starts only after a generation call has succeeded and its turn
\* is written.
C15_PipelineOrder == [](C15_State) /\ [][C15_Step]_vars

\* A text of three chunks translated, answered after one failed attempt,
\* and the answer translated back and sent.
C15_FullPipeline ==
    \E t \in Tasks :
        /\ task[t].pc = "done"
        /\ Len(TranslateCallsFrom(t, "om")) = 3
        /\ task[t].translated_input = InboundResult(t)
        /\ Len(gen_calls[t]) = 2
        /\ Succeeded(t)
        /\ TranslateCallsFrom(t, "en") # <<>>
        /\ Sent(t) = <<task[t].translated_response>>

(***************************************************************************)
(* C16                                                                     *)
(***************************************************************************)

\* What the primitive generated after the prompt's cue, up to the first
\* 'User:' marker it wrote.
FirstAssistantTurn(prompt, generated_text) ==
    LET continuation == SubSeq(generated_text, Len(prompt) + 1, Len(generated_text))
        markers == {i \in 1..Len(continuation) : MatchAt(continuation, "User:", i)}
    IN  IF markers = {} THEN continuation
        ELSE SubSeq(continuation, 1,
                    (CHOOSE i \in markers : \A j \in markers : i <= j) - 1)

\* C16: the response get_ai_response extracts from a raw output is the first
\* assistant turn after the prompt's cue only: it holds no 'User:' marker and
\* no text that followed one in the raw output (on later lines, or in further
\* 'Assistant:' turns), and it is the text stored in the history.
C16_OnlyFirstAssistantTurn ==
    \A t \in Tasks :
        Succeeded(t) =>
            LET ok == Last(gen_calls[t])
                by == RecordedBy(task[t].msg)
            IN  /\ ~Contains(task[t].ai_response, "User:")
                /\ Contains(FirstAssistantTurn(ok.prompt, ok.generated_text),
                            task[t].ai_response)
                /\ Len(by) = 1
                /\ by[1].turn = "User: " \o task[t].translated_input
                                    \o "\nAssistant: " \o task[t].ai_response

(***************************************************************************)
(* C18                                                                     *)
(***************************************************************************)

\* The turns that were in user u's history, oldest first, when the k-th
\* write to the history was made.
TurnsBefore(u, k) ==
    LET earlier == SelectSeq(SubSeq(recorded, 1, k - 1), LAMBDA r : r.user_id = u)
    IN  [j \in 1..Len(earlier) |-> earlier[j].turn]

NextHistoryOf(u) ==
    IF u \in DOMAIN user_conversation_history'
    THEN user_conversation_history'[u] ELSE <<>>

C19_State ==
    \A u \in Users :
        /\ u \in DOMAIN user_conversation_history <=> TurnsOf(u) # <<>>
        /\ u \in DOMAIN user_conversation_history =>
               user_conversation_history[u] # <<>>

C19_Step ==
    /\ \A u \in Users :
          \* an entry is never removed
          /\ u \in DOMAIN user_conversation_history =>
                 u \in DOMAIN user_conversation_history'
          \* only a successful inference for u changes u's history
          /\ NextHistoryOf(u) # HistoryOf(u) =>
                 \E t \in Tasks : GenStep(t, "ok") /\ task[t].user_id = u
          \* the entry is created by u's first successful inference
          /\ (u \notin DOMAIN user_conversation_history
                  /\ u \in DOMAIN user_conversation_history') =>
                 /\ TurnsOf(u) = <<>>
                 /\ Len(user_conversation_history'[u]) = 1
    \* a step of the handler of a message of user A changes no other history
    /\ \A t \in Tasks :
          (task'[t] # task[t] /\ task[t].pc # "idle") =>
              \A b \in Users \ {task[t].user_id} :
                  NextHistoryOf(b) = HistoryOf(b)

\* C19: handling a message of one user, whatever its outcome and however it
\* interleaves with other users' messages, leaves every other user's history
\* unchanged; a user's entry is created only by that user's first successful
\* inference and is never removed.
C19_PerUserIsolation == [](C19_State) /\ [][C19_Step]_vars

\* One user's inference has just succeeded while another user, who has a
\* history, has a message in flight.
C19_OtherUserUntouched ==
    \E t, o \in Tasks :
        /\ t # o
        /\ task[t].pc = "check" /\ Succeeded(t)
        /\ task[o].pc \notin Ended
        /\ task[o].user_id # task[t].user_id
        /\ HistoryOf(task[o].user_id) # <<>>
        /\ HistoryOf(task[t].user_id) # <<>>

====
